---- MODULE Spec2Model ----
(***************************************************************************)
(* The drag session controller ResizeRef: its fields, the DOM state it     *)
(* reads and writes on its root element, and one action per public method  *)
(* or event handler.  The browser hands an event to a handler only while   *)
(* the handler's listener is registered: pointer-down through the root     *)
(* element's listeners, pointer-move and pointer-up through the two        *)
(* subscriptions of the session.                                           *)
(*                                                                         *)
(* Optional values (a field that is still `undefined`) are sequences of    *)
(* length 0 or 1: None is undefined, Some(v) is the value v.  An inline    *)
(* `transform` string is the sequence of its space-separated functions: a  *)
(* translate3d(x px, y px, 0) is the record [x, y], any other function is  *)
(* a string, and the empty string is the empty sequence.                   *)
(***************************************************************************)
EXTENDS Integers, Sequences, FiniteSets

----------------------------------------------------------------------------
(* Bounds of the model and the inputs the environment draws from.          *)

\* most observers subscribed to `moved` at one time
MaxSubscribers == 1
\* the clock advances at most this many times
MaxTicks == 1
\* Date.now() when the session is constructed (a positive epoch time)
StartTime == 1

MOUSE_EVENT_IGNORE_TIME == 800

\* ResizeRefConfig, fixed at construction
dragStartThreshold == 5
pointerDirectionChangeThreshold == 1

\* where on the page the pointer can be
PagePoints == {<<100, 100>>, <<102, 101>>, <<106, 101>>, <<102, 103>>}
\* what ViewportRuler.getViewportScrollPosition() can answer
ScrollPositions == {[top |-> 0, left |-> 0], [top |-> 1, left |-> 2]}
\* inline transforms the root element can carry before the session touches it
InlineTransforms == {<<>>, <<"rotate(45deg)">>}
\* how far Date.now() moves between two events
TickStep == MOUSE_EVENT_IGNORE_TIME

Event(type, button, at) ==
  [type |-> type, button |-> button, pageX |-> at[1], pageY |-> at[2]]
\* a press of an auxiliary button is turned away wherever it lands
DownEvents ==
  {Event("mousedown", 0, at) : at \in PagePoints}
    \cup {Event("touchstart", 0, at) : at \in PagePoints}
    \cup {Event("mousedown", 2, <<100, 100>>)}
MoveEvents ==
  {Event(type, 0, at) : type \in {"mousemove", "touchmove"}, at \in PagePoints}
\* the up handler reads nothing of its event
UpEvents ==
  {Event(type, 0, <<100, 100>>) : type \in {"mouseup", "touchend"}}

----------------------------------------------------------------------------
None == <<>>
Some(v) == <<v>>
Abs(n) == IF n < 0 THEN -n ELSE n
Point(px, py) == [x |-> px, y |-> py]
Zero == Point(0, 0)

VARIABLES
  rootListeners,          \* the root element carries the mousedown/touchstart listeners
  pointerSubscribed,      \* _pointerMoveSubscription/_pointerUpSubscription are live
  disabled,               \* _disabled
  nativeInteractionsEnabled,   \* _nativeInteractionsEnabled
  elementNativeInteractions,   \* what toggleNativeDragInteractions last set on the element
  hasStartedDragging,     \* _hasStartedDragging (undefined counts as FALSE)
  hasMoved,               \* _hasMoved (undefined counts as FALSE)
  pickupPositionInElement,
  pickupPositionOnPage,
  scrollPosition,
  passiveTransform,
  activeTransform,
  initialTransform,
  styleTransform,         \* _rootElement.style.transform
  inDocument,             \* _rootElement.parentNode is not null
  moveEventSubscriptions,
  pointerDirectionDelta,
  pointerPositionAtLastDirectionChange,
  lastTouchEventTime,
  now,                    \* Date.now()
  completed,              \* the Subjects have been completed
  disposeCalled,          \* dispose() has been called on this session
  emitted,                \* what the last call delivered to subscribers, in order
  cycle,                  \* notifications delivered since the last arming, per channel
  rootElement,            \* _rootElement: which element of the page the session drives
  otherTransforms,        \* style.transform of each element that is not the root
  originalTransform,      \* style.transform of each watched element before the session
  arrays,                 \* the arrays a caller of the array utilities holds, by name
  call                    \* the call of an array utility made on them, once made

vars == <<rootListeners, pointerSubscribed, disabled, nativeInteractionsEnabled,
          elementNativeInteractions, hasStartedDragging, hasMoved,
          pickupPositionInElement, pickupPositionOnPage, scrollPosition,
          passiveTransform, activeTransform, initialTransform, styleTransform,
          inDocument, moveEventSubscriptions, pointerDirectionDelta,
          pointerPositionAtLastDirectionChange, lastTouchEventTime, now,
          completed, disposeCalled, emitted, cycle, rootElement,
          otherTransforms, originalTransform, arrays, call>>

\* every field of the session and of its root element
sessionVars == <<rootListeners, pointerSubscribed, disabled,
                 nativeInteractionsEnabled, elementNativeInteractions,
                 hasStartedDragging, hasMoved, pickupPositionInElement,
                 pickupPositionOnPage, scrollPosition, passiveTransform,
                 activeTransform, initialTransform, styleTransform, inDocument,
                 moveEventSubscriptions, pointerDirectionDelta,
                 pointerPositionAtLastDirectionChange, lastTouchEventTime, now,
                 completed, disposeCalled, emitted, cycle>>

\* the fields one drag sequence works on
sequenceVars == <<hasStartedDragging, hasMoved, pickupPositionInElement,
                  pickupPositionOnPage, scrollPosition, pointerDirectionDelta,
                  pointerPositionAtLastDirectionChange>>
transformVars == <<passiveTransform, activeTransform, styleTransform>>
nativeVars == <<nativeInteractionsEnabled, elementNativeInteractions>>
\* the other elements of the page and what a session never writes
pageVars == <<rootElement, otherTransforms, originalTransform>>
arrayVars == <<arrays, call>>

NoCycle == [started |-> 0, released |-> 0, ended |-> 0]

----------------------------------------------------------------------------
(* Pure helpers.                                                           *)

isTouchEvent(event) == event.type \in {"touchstart", "touchmove", "touchend"}

\* translate3d(round(x)px, round(y)px, 0); Math.round leaves the integer
\* coordinates drawn here as they are
getTransform(x, y) == <<Point(x, y)>>

\* a Subject delivers next() to its subscribers until it has been completed
Deliver(isDone, note) == IF isDone THEN <<>> ELSE <<note>>

\* a lifecycle notification, with the passive transform its subscribers can
\* observe at the moment it is delivered
Note(channel, passive) == [channel |-> channel, passive |-> passive]

MoveNote(pointerPosition, delta) ==
  [channel |-> "moved", pointerPosition |-> pointerPosition, delta |-> delta]

Channels(notes) == [i \in 1..Len(notes) |-> notes[i].channel]

Count(notes, channel) ==
  Cardinality({i \in 1..Len(notes) : notes[i].channel = channel})

\* the notifications of `notes` added to the per-cycle tally
Tally(tally, notes) ==
  [c \in DOMAIN tally |-> tally[c] + Count(notes, c)]

_getPointerPositionOnPage(event, scroll) ==
  Point(event.pageX - scroll.left, event.pageY - scroll.top)

\* the translation the element's inline transform moves it by
RECURSIVE Translation(_)
Translation(transform) ==
  IF transform = <<>> THEN Zero
  ELSE LET rest == Translation(Tail(transform))
           head == Head(transform)
       IN IF head \in STRING THEN rest
          ELSE Point(head.x + rest.x, head.y + rest.y)

\* getBoundingClientRect() of the root element: its place in the document,
\* moved by its transform, seen from the scrolled viewport
ElementLeft == 90
ElementTop == 95
getBoundingClientRect(scroll) ==
  [left |-> ElementLeft + Translation(styleTransform).x - scroll.left,
   top |-> ElementTop + Translation(styleTransform).y - scroll.top]

\* the reference element is always the root element here
_getPointerPositionInElement(event, scroll) ==
  LET elementRect == getBoundingClientRect(scroll)
      referenceRect == elementRect
      x == event.pageX - referenceRect.left - scroll.left
      y == event.pageY - referenceRect.top - scroll.top
  IN Point(referenceRect.left - elementRect.left + x,
           referenceRect.top - elementRect.top + y)

isDragging == hasStartedDragging

Truthy(optional) == optional # None /\ optional[1] # <<>>

----------------------------------------------------------------------------
(* Construction.                                                           *)

\* withRootElement(element) as the constructor calls it: the listeners go
\* onto the element and the cached inline transform is cleared
constructor ==
  /\ rootListeners = TRUE
  /\ pointerSubscribed = FALSE
  /\ disabled = FALSE
  /\ nativeInteractionsEnabled = TRUE
  /\ elementNativeInteractions = TRUE
  /\ hasStartedDragging = FALSE
  /\ hasMoved = FALSE
  /\ pickupPositionInElement = None
  /\ pickupPositionOnPage = None
  /\ scrollPosition = None
  /\ passiveTransform = Zero
  /\ activeTransform = Zero
  /\ initialTransform = None
  /\ styleTransform \in InlineTransforms
  /\ inDocument = TRUE
  /\ moveEventSubscriptions = 0
  /\ pointerDirectionDelta = None
  /\ pointerPositionAtLastDirectionChange = None
  /\ lastTouchEventTime = None
  /\ now = StartTime
  /\ completed = FALSE
  /\ disposeCalled = FALSE
  /\ emitted = <<>>
  /\ cycle = NoCycle

\* no array utility is in use
NoArrays == arrays = <<>> /\ call = None

\* a session built on the only element of its page; what that element
\* looked like before is not kept
Init ==
  /\ constructor
  /\ rootElement = 1
  /\ otherTransforms = <<>>
  /\ originalTransform = <<>>
  /\ NoArrays

----------------------------------------------------------------------------
(* Private methods.                                                        *)

\* as _toggleNativeDragInteractions, with the sense of the flag inverted
_toggleNativeDragInteractions_inverted(isDisabled) ==
  LET shouldEnable == ~isDisabled
  IN IF shouldEnable # nativeInteractionsEnabled
     THEN /\ nativeInteractionsEnabled' = shouldEnable
          /\ elementNativeInteractions' = shouldEnable
     ELSE UNCHANGED nativeVars

_toggleNativeDragInteractions(isDisabled) ==
  LET shouldEnable == isDisabled
  IN IF shouldEnable # nativeInteractionsEnabled
     THEN /\ nativeInteractionsEnabled' = shouldEnable
          /\ elementNativeInteractions' = shouldEnable
     ELSE UNCHANGED nativeVars

\* the move and up handlers stop being called
_removeSubscriptions == pointerSubscribed' = FALSE

\* The class declares _pointerMoveSubscription and _pointerUpSubscription,
\* starts them empty and unsubscribes them, but holds no statement that
\* assigns them.  The move and up listeners are attached for the length of a
\* cycle, from the pointer-down that arms to the pointer-up or dispose()
\* that tears them down: this is that attachment.
SubscribeToPointerEvents == pointerSubscribed' = TRUE

_removeRootElementListeners == rootListeners' = FALSE

\* removeElement(this._rootElement)
removeElement == inDocument' = FALSE

_startDragSequence(event) ==
  /\ emitted' = Deliver(completed, Note("started", passiveTransform))
  /\ cycle' = Tally(cycle, emitted')
  /\ lastTouchEventTime' =
       IF isTouchEvent(event) THEN Some(now) ELSE lastTouchEventTime

\* as _updatePointerDirectionDelta, with an axis that has not moved past
\* the threshold reported as at rest
_updatePointerDirectionDelta_restsAtZero(pointerPositionOnPage) ==
  LET x == pointerPositionOnPage.x
      y == pointerPositionOnPage.y
      positionSinceLastChange == pointerPositionAtLastDirectionChange[1]
      changeX == Abs(x - positionSinceLastChange.x)
      changeY == Abs(y - positionSinceLastChange.y)
      turnX == changeX > pointerDirectionChangeThreshold
      turnY == changeY > pointerDirectionChangeThreshold
  IN [delta |->
        Point(IF turnX THEN (IF x > positionSinceLastChange.x THEN 1 ELSE -1)
                       ELSE 0,
              IF turnY THEN (IF y > positionSinceLastChange.y THEN 1 ELSE -1)
                       ELSE 0),
      position |->
        Point(IF turnX THEN x ELSE positionSinceLastChange.x,
              IF turnY THEN y ELSE positionSinceLastChange.y)]

\* as _updatePointerDirectionDelta, with a change as large as the threshold
\* counting already
_updatePointerDirectionDelta_atThreshold(pointerPositionOnPage) ==
  LET x == pointerPositionOnPage.x
      y == pointerPositionOnPage.y
      delta == pointerDirectionDelta[1]
      positionSinceLastChange == pointerPositionAtLastDirectionChange[1]
      changeX == Abs(x - positionSinceLastChange.x)
      changeY == Abs(y - positionSinceLastChange.y)
      turnX == changeX >= pointerDirectionChangeThreshold
      turnY == changeY >= pointerDirectionChangeThreshold
  IN [delta |->
        Point(IF turnX THEN (IF x > positionSinceLastChange.x THEN 1 ELSE -1)
                       ELSE delta.x,
              IF turnY THEN (IF y > positionSinceLastChange.y THEN 1 ELSE -1)
                       ELSE delta.y),
      position |->
        Point(IF turnX THEN x ELSE positionSinceLastChange.x,
              IF turnY THEN y ELSE positionSinceLastChange.y)]

\* the direction delta and its reference point after a dragging move to
\* pointerPositionOnPage
_updatePointerDirectionDelta(pointerPositionOnPage) ==
  LET x == pointerPositionOnPage.x
      y == pointerPositionOnPage.y
      delta == pointerDirectionDelta[1]
      positionSinceLastChange == pointerPositionAtLastDirectionChange[1]
      changeX == Abs(x - positionSinceLastChange.x)
      changeY == Abs(y - positionSinceLastChange.y)
      turnX == changeX > pointerDirectionChangeThreshold
      turnY == changeY > pointerDirectionChangeThreshold
  IN [delta |->
        Point(IF turnX THEN (IF x > positionSinceLastChange.x THEN 1 ELSE -1)
                       ELSE delta.x,
              IF turnY THEN (IF y > positionSinceLastChange.y THEN 1 ELSE -1)
                       ELSE delta.y),
      position |->
        Point(IF turnX THEN x ELSE positionSinceLastChange.x,
              IF turnY THEN y ELSE positionSinceLastChange.y)]

\* as isSyntheticEvent, with the window still shut at its last instant
isSyntheticEvent_inclusive(event) ==
  /\ ~isTouchEvent(event)
  /\ lastTouchEventTime # None
  /\ lastTouchEventTime[1] # 0
  /\ lastTouchEventTime[1] + MOUSE_EVENT_IGNORE_TIME >= now

\* the test _initializeDragSequence makes of its event: a mouse event that
\* follows a touch event closely (a time of 0 or undefined is no time)
isSyntheticEvent(event) ==
  /\ ~isTouchEvent(event)
  /\ lastTouchEventTime # None
  /\ lastTouchEventTime[1] # 0
  /\ lastTouchEventTime[1] + MOUSE_EVENT_IGNORE_TIME > now

\* as _initializeDragSequence, arming again in the middle of a drag
_initializeDragSequence_noDraggingCheck(event, scroll) ==
  LET isTouchSequence == isTouchEvent(event)
      isAuxiliaryMouseButton == ~isTouchSequence /\ event.button # 0
  IN IF isAuxiliaryMouseButton \/ isSyntheticEvent(event)
     THEN UNCHANGED <<sequenceVars, nativeVars, initialTransform,
                      pointerSubscribed, cycle>>
     ELSE /\ initialTransform' =
               IF initialTransform = None THEN Some(styleTransform)
               ELSE initialTransform
          /\ _toggleNativeDragInteractions(disabled)
          /\ hasStartedDragging' = FALSE
          /\ hasMoved' = FALSE
          /\ scrollPosition' = Some(scroll)
          /\ pickupPositionInElement' =
               Some(_getPointerPositionInElement(event, scroll))
          /\ pickupPositionOnPage' = Some(_getPointerPositionOnPage(event, scroll))
          /\ pointerDirectionDelta' = Some(Zero)
          /\ pointerPositionAtLastDirectionChange' =
               Some(_getPointerPositionOnPage(event, scroll))
          /\ SubscribeToPointerEvents
          /\ cycle' = NoCycle

\* everything of _initializeDragSequence; the caller has emitted already
_initializeDragSequence(event, scroll) ==
  LET isTouchSequence == isTouchEvent(event)
      isAuxiliaryMouseButton == ~isTouchSequence /\ event.button # 0
  IN IF isDragging \/ isAuxiliaryMouseButton \/ isSyntheticEvent(event)
     THEN UNCHANGED <<sequenceVars, nativeVars, initialTransform,
                      pointerSubscribed, cycle>>
     ELSE /\ initialTransform' =
               IF initialTransform = None THEN Some(styleTransform)
               ELSE initialTransform
          /\ _toggleNativeDragInteractions(disabled)
          /\ hasStartedDragging' = FALSE
          /\ hasMoved' = FALSE
          /\ scrollPosition' = Some(scroll)
          /\ pickupPositionInElement' =
               Some(_getPointerPositionInElement(event, scroll))
          /\ pickupPositionOnPage' = Some(_getPointerPositionOnPage(event, scroll))
          /\ pointerDirectionDelta' = Some(Zero)
          /\ pointerPositionAtLastDirectionChange' =
               Some(_getPointerPositionOnPage(event, scroll))
          /\ SubscribeToPointerEvents
          /\ cycle' = NoCycle

----------------------------------------------------------------------------
(* Event handlers.                                                         *)

\* as ThresholdReached, with the threshold itself not counting
ThresholdReached_strict(pointerPosition, pickup) ==
  LET distanceX == Abs(pointerPosition.x - pickup.x)
      distanceY == Abs(pointerPosition.y - pickup.y)
  IN distanceX + distanceY > dragStartThreshold

\* whether a move to pointerPosition is far enough from the pickup point to
\* start dragging
ThresholdReached(pointerPosition, pickup) ==
  LET distanceX == Abs(pointerPosition.x - pickup.x)
      distanceY == Abs(pointerPosition.y - pickup.y)
  IN distanceX + distanceY >= dragStartThreshold

\* the active transform of a dragging move to pointerPosition
ActiveTransformAt(pointerPosition, pickup) ==
  Point(pointerPosition.x - pickup.x + passiveTransform.x,
        pointerPosition.y - pickup.y + passiveTransform.y)

\* as _pointerDown, announcing only the presses an enabled session takes
_pointerDown_emitsWhenEnabled(event, scroll) ==
  /\ IF ~disabled
     THEN /\ emitted' = Deliver(completed, Note("beforeStarted", passiveTransform))
          /\ _initializeDragSequence(event, scroll)
     ELSE /\ emitted' = <<>>
          /\ UNCHANGED <<sequenceVars, nativeVars, initialTransform,
                         pointerSubscribed, cycle>>
  /\ UNCHANGED <<rootListeners, disabled, transformVars, inDocument,
                 moveEventSubscriptions, lastTouchEventTime, now, completed,
                 disposeCalled>>

\* mousedown/touchstart on the root element; scroll is what the viewport
\* ruler answers during the call
_pointerDown(event, scroll) ==
  /\ emitted' = Deliver(completed, Note("beforeStarted", passiveTransform))
  /\ IF ~disabled
     THEN _initializeDragSequence(event, scroll)
     ELSE UNCHANGED <<sequenceVars, nativeVars, initialTransform,
                      pointerSubscribed, cycle>>
  /\ UNCHANGED <<rootListeners, disabled, transformVars, inDocument,
                 moveEventSubscriptions, lastTouchEventTime, now, completed,
                 disposeCalled>>

\* as _pointerMove, without the return that ends the move on which the
\* sequence starts: that move goes on to drag the element
_pointerMove_noReturn(event) ==
  /\ LET pointerPosition == _getPointerPositionOnPage(event, scrollPosition[1])
         pickup == pickupPositionOnPage[1]
         starts == ~hasStartedDragging /\ ThresholdReached(pointerPosition, pickup)
         direction == _updatePointerDirectionDelta(pointerPosition)
         active == ActiveTransformAt(pointerPosition, pickup)
         transform == getTransform(active.x, active.y)
     IN IF ~hasStartedDragging /\ ~starts
        THEN /\ emitted' = <<>>
             /\ UNCHANGED <<hasStartedDragging, cycle, lastTouchEventTime,
                            hasMoved, pointerDirectionDelta,
                            pointerPositionAtLastDirectionChange,
                            activeTransform, styleTransform>>
        ELSE /\ hasStartedDragging' = TRUE
             /\ lastTouchEventTime' =
                  IF starts /\ isTouchEvent(event) THEN Some(now)
                  ELSE lastTouchEventTime
             /\ hasMoved' = TRUE
             /\ pointerDirectionDelta' = Some(direction.delta)
             /\ pointerPositionAtLastDirectionChange' = Some(direction.position)
             /\ activeTransform' = active
             /\ styleTransform' =
                  IF Truthy(initialTransform)
                  THEN transform \o initialTransform[1] ELSE transform
             /\ emitted' =
                  (IF starts
                   THEN Deliver(completed, Note("started", passiveTransform))
                   ELSE <<>>)
                  \o (IF moveEventSubscriptions > 0
                      THEN Deliver(completed,
                                   MoveNote(pointerPosition, direction.delta))
                      ELSE <<>>)
             /\ cycle' = Tally(cycle, emitted')
  /\ UNCHANGED <<rootListeners, pointerSubscribed, disabled, nativeVars,
                 pickupPositionInElement, pickupPositionOnPage, scrollPosition,
                 passiveTransform, initialTransform, inDocument,
                 moveEventSubscriptions, now, completed, disposeCalled>>

\* as _pointerMove, with the moved flag set before the threshold is looked at
_pointerMove_movedFirst(event) ==
  /\ LET pointerPosition == _getPointerPositionOnPage(event, scrollPosition[1])
         pickup == pickupPositionOnPage[1]
     IN IF ~hasStartedDragging
        THEN /\ IF ThresholdReached(pointerPosition, pickup)
                   THEN /\ hasStartedDragging' = TRUE
                        /\ _startDragSequence(event)
                   ELSE /\ emitted' = <<>>
                        /\ UNCHANGED <<hasStartedDragging, cycle,
                                       lastTouchEventTime>>
             /\ hasMoved' = TRUE
             /\ UNCHANGED <<pointerDirectionDelta,
                            pointerPositionAtLastDirectionChange,
                            activeTransform, styleTransform>>
        ELSE LET direction == _updatePointerDirectionDelta(pointerPosition)
                 active == ActiveTransformAt(pointerPosition, pickup)
                 transform == getTransform(active.x, active.y)
             IN /\ hasMoved' = TRUE
                /\ pointerDirectionDelta' = Some(direction.delta)
                /\ pointerPositionAtLastDirectionChange' = Some(direction.position)
                /\ activeTransform' = active
                /\ styleTransform' =
                     IF Truthy(initialTransform)
                     THEN transform \o initialTransform[1] ELSE transform
                /\ emitted' =
                     IF moveEventSubscriptions > 0
                     THEN Deliver(completed,
                                  MoveNote(pointerPosition, direction.delta))
                     ELSE <<>>
                /\ UNCHANGED <<hasStartedDragging, cycle, lastTouchEventTime>>
  /\ UNCHANGED <<rootListeners, pointerSubscribed, disabled, nativeVars,
                 pickupPositionInElement, pickupPositionOnPage, scrollPosition,
                 passiveTransform, initialTransform, inDocument,
                 moveEventSubscriptions, now, completed, disposeCalled>>

\* as _pointerMove, with every dragging move folded into the passive
\* transform at once
_pointerMove_foldsWhileDragging(event) ==
  /\ LET pointerPosition == _getPointerPositionOnPage(event, scrollPosition[1])
         pickup == pickupPositionOnPage[1]
     IN IF ~hasStartedDragging
        THEN /\ IF ThresholdReached(pointerPosition, pickup)
                   THEN /\ hasStartedDragging' = TRUE
                        /\ _startDragSequence(event)
                   ELSE /\ emitted' = <<>>
                        /\ UNCHANGED <<hasStartedDragging, cycle,
                                       lastTouchEventTime>>
             /\ UNCHANGED <<hasMoved, pointerDirectionDelta,
                            pointerPositionAtLastDirectionChange,
                            activeTransform, styleTransform, passiveTransform>>
        ELSE LET direction == _updatePointerDirectionDelta(pointerPosition)
                 active == ActiveTransformAt(pointerPosition, pickup)
                 transform == getTransform(active.x, active.y)
             IN /\ hasMoved' = TRUE
                /\ pointerDirectionDelta' = Some(direction.delta)
                /\ pointerPositionAtLastDirectionChange' = Some(direction.position)
                /\ activeTransform' = active
                /\ passiveTransform' = active
                /\ styleTransform' =
                     IF Truthy(initialTransform)
                     THEN transform \o initialTransform[1] ELSE transform
                /\ emitted' =
                     IF moveEventSubscriptions > 0
                     THEN Deliver(completed,
                                  MoveNote(pointerPosition, direction.delta))
                     ELSE <<>>
                /\ UNCHANGED <<hasStartedDragging, cycle, lastTouchEventTime>>
  /\ UNCHANGED <<rootListeners, pointerSubscribed, disabled, nativeVars,
                 pickupPositionInElement, pickupPositionOnPage, scrollPosition,
                 initialTransform, inDocument,
                 moveEventSubscriptions, now, completed, disposeCalled>>

\* as _pointerMove, notifying whether or not anyone observes `moved`
_pointerMove_alwaysEmits(event) ==
  /\ LET pointerPosition == _getPointerPositionOnPage(event, scrollPosition[1])
         pickup == pickupPositionOnPage[1]
     IN IF ~hasStartedDragging
        THEN /\ IF ThresholdReached(pointerPosition, pickup)
                   THEN /\ hasStartedDragging' = TRUE
                        /\ _startDragSequence(event)
                   ELSE /\ emitted' = <<>>
                        /\ UNCHANGED <<hasStartedDragging, cycle,
                                       lastTouchEventTime>>
             /\ UNCHANGED <<hasMoved, pointerDirectionDelta,
                            pointerPositionAtLastDirectionChange,
                            activeTransform, styleTransform>>
        ELSE LET direction == _updatePointerDirectionDelta(pointerPosition)
                 active == ActiveTransformAt(pointerPosition, pickup)
                 transform == getTransform(active.x, active.y)
             IN /\ hasMoved' = TRUE
                /\ pointerDirectionDelta' = Some(direction.delta)
                /\ pointerPositionAtLastDirectionChange' = Some(direction.position)
                /\ activeTransform' = active
                /\ styleTransform' =
                     IF Truthy(initialTransform)
                     THEN transform \o initialTransform[1] ELSE transform
                /\ emitted' = Deliver(completed,
                                      MoveNote(pointerPosition, direction.delta))
                /\ UNCHANGED <<hasStartedDragging, cycle, lastTouchEventTime>>
  /\ UNCHANGED <<rootListeners, pointerSubscribed, disabled, nativeVars,
                 pickupPositionInElement, pickupPositionOnPage, scrollPosition,
                 passiveTransform, initialTransform, inDocument,
                 moveEventSubscriptions, now, completed, disposeCalled>>

_pointerMove(event) ==
  /\ LET pointerPosition == _getPointerPositionOnPage(event, scrollPosition[1])
         pickup == pickupPositionOnPage[1]
     IN IF ~hasStartedDragging
        THEN /\ IF ThresholdReached(pointerPosition, pickup)
                   THEN /\ hasStartedDragging' = TRUE
                        /\ _startDragSequence(event)
                   ELSE /\ emitted' = <<>>
                        /\ UNCHANGED <<hasStartedDragging, cycle,
                                       lastTouchEventTime>>
             /\ UNCHANGED <<hasMoved, pointerDirectionDelta,
                            pointerPositionAtLastDirectionChange,
                            activeTransform, styleTransform>>
        ELSE LET direction == _updatePointerDirectionDelta(pointerPosition)
                 active == ActiveTransformAt(pointerPosition, pickup)
                 transform == getTransform(active.x, active.y)
             IN /\ hasMoved' = TRUE
                /\ pointerDirectionDelta' = Some(direction.delta)
                /\ pointerPositionAtLastDirectionChange' = Some(direction.position)
                /\ activeTransform' = active
                /\ styleTransform' =
                     IF Truthy(initialTransform)
                     THEN transform \o initialTransform[1] ELSE transform
                /\ emitted' =
                     IF moveEventSubscriptions > 0
                     THEN Deliver(completed,
                                  MoveNote(pointerPosition, direction.delta))
                     ELSE <<>>
                /\ UNCHANGED <<hasStartedDragging, cycle, lastTouchEventTime>>
  /\ UNCHANGED <<rootListeners, pointerSubscribed, disabled, nativeVars,
                 pickupPositionInElement, pickupPositionOnPage, scrollPosition,
                 passiveTransform, initialTransform, inDocument,
                 moveEventSubscriptions, now, completed, disposeCalled>>

\* what _cleanupDragArtifacts delivers; no statement of the class calls it
_cleanupDragArtifacts(event) ==
  Deliver(completed, Note("ended", passiveTransform'))
    \o Deliver(completed, Note("dropped", passiveTransform'))

\* as _pointerUp, ending a started drag through _cleanupDragArtifacts
_pointerUp_cleansUp(event) ==
  /\ _removeSubscriptions
  /\ IF ~hasStartedDragging
     THEN /\ emitted' = <<>>
          /\ UNCHANGED <<passiveTransform, cycle>>
     ELSE /\ passiveTransform' = activeTransform
          /\ emitted' = Deliver(completed, Note("released", passiveTransform))
                          \o _cleanupDragArtifacts(event)
          /\ cycle' = Tally(cycle, emitted')
  /\ UNCHANGED <<rootListeners, disabled, nativeVars, sequenceVars,
                 activeTransform, styleTransform, initialTransform, inDocument,
                 moveEventSubscriptions, lastTouchEventTime, now, completed,
                 disposeCalled>>

\* as _pointerUp, without the early return of a sequence that never started
_pointerUp_noStartedCheck(event) ==
  /\ _removeSubscriptions
  /\ passiveTransform' = activeTransform
  /\ emitted' = Deliver(completed, Note("released", passiveTransform))
                  \o Deliver(completed, Note("ended", activeTransform))
  /\ cycle' = Tally(cycle, emitted')
  /\ UNCHANGED <<rootListeners, disabled, nativeVars, sequenceVars,
                 activeTransform, styleTransform, initialTransform, inDocument,
                 moveEventSubscriptions, lastTouchEventTime, now, completed,
                 disposeCalled>>

\* as _pointerUp, with the active transform folded into the passive one
\* before "released" goes out
_pointerUp_foldsFirst(event) ==
  /\ _removeSubscriptions
  /\ IF ~hasStartedDragging
     THEN /\ emitted' = <<>>
          /\ UNCHANGED <<passiveTransform, cycle>>
     ELSE /\ passiveTransform' = activeTransform
          /\ emitted' = Deliver(completed, Note("released", activeTransform))
                          \o Deliver(completed, Note("ended", activeTransform))
          /\ cycle' = Tally(cycle, emitted')
  /\ UNCHANGED <<rootListeners, disabled, nativeVars, sequenceVars,
                 activeTransform, styleTransform, initialTransform, inDocument,
                 moveEventSubscriptions, lastTouchEventTime, now, completed,
                 disposeCalled>>

_pointerUp(event) ==
  /\ _removeSubscriptions
  /\ IF ~hasStartedDragging
     THEN /\ emitted' = <<>>
          /\ UNCHANGED <<passiveTransform, cycle>>
     ELSE /\ passiveTransform' = activeTransform
          /\ emitted' = Deliver(completed, Note("released", passiveTransform))
                          \o Deliver(completed, Note("ended", activeTransform))
          /\ cycle' = Tally(cycle, emitted')
  /\ UNCHANGED <<rootListeners, disabled, nativeVars, sequenceVars,
                 activeTransform, styleTransform, initialTransform, inDocument,
                 moveEventSubscriptions, lastTouchEventTime, now, completed,
                 disposeCalled>>

----------------------------------------------------------------------------
(* Public methods.                                                         *)

set_disabled(value) ==
  /\ IF value # disabled
     THEN /\ disabled' = value
          /\ _toggleNativeDragInteractions(value)
     ELSE UNCHANGED <<disabled, nativeVars>>
  /\ emitted' = <<>>
  /\ UNCHANGED <<rootListeners, pointerSubscribed, sequenceVars, transformVars,
                 initialTransform, inDocument, moveEventSubscriptions,
                 lastTouchEventTime, now, completed, disposeCalled, cycle>>

\* as reset, also taking the session back to idle
reset_clearsFlags ==
  /\ styleTransform' = IF Truthy(initialTransform) THEN initialTransform[1] ELSE <<>>
  /\ activeTransform' = Zero
  /\ passiveTransform' = Zero
  /\ hasStartedDragging' = FALSE
  /\ hasMoved' = FALSE
  /\ emitted' = <<>>
  /\ UNCHANGED <<rootListeners, pointerSubscribed, disabled, nativeVars,
                 pickupPositionInElement, pickupPositionOnPage, scrollPosition,
                 pointerDirectionDelta, pointerPositionAtLastDirectionChange,
                 initialTransform, inDocument, moveEventSubscriptions,
                 lastTouchEventTime, now, completed, disposeCalled, cycle>>

reset ==
  /\ styleTransform' = IF Truthy(initialTransform) THEN initialTransform[1] ELSE <<>>
  /\ activeTransform' = Zero
  /\ passiveTransform' = Zero
  /\ emitted' = <<>>
  /\ UNCHANGED <<rootListeners, pointerSubscribed, disabled, nativeVars,
                 sequenceVars, initialTransform, inDocument,
                 moveEventSubscriptions, lastTouchEventTime, now, completed,
                 disposeCalled, cycle>>

\* as dispose, removing the element but tearing nothing down
dispose_noTeardown ==
  /\ IF isDragging THEN removeElement ELSE UNCHANGED inDocument
  /\ emitted' = <<>>
  /\ UNCHANGED <<rootListeners, pointerSubscribed, completed, disabled,
                 nativeVars, sequenceVars, transformVars, initialTransform,
                 moveEventSubscriptions, lastTouchEventTime, now, cycle>>

dispose ==
  /\ _removeRootElementListeners
  /\ IF isDragging THEN removeElement ELSE UNCHANGED inDocument
  /\ _removeSubscriptions
  /\ completed' = TRUE
  /\ emitted' = <<>>
  /\ UNCHANGED <<disabled, nativeVars, sequenceVars, transformVars,
                 initialTransform, moveEventSubscriptions, lastTouchEventTime,
                 now, cycle>>

\* the session is pointed at `element`: nothing happens if it is the root
\* already; otherwise the pointer-down listeners move over to it and the
\* cached inline transform is forgotten
withRootElement(element) ==
  /\ IF element # rootElement
     THEN /\ rootListeners' = TRUE
          /\ initialTransform' = None
          /\ rootElement' = element
          /\ styleTransform' = otherTransforms[element]
          /\ otherTransforms' =
               [e \in ((DOMAIN otherTransforms) \cup {rootElement}) \ {element} |->
                  IF e = rootElement THEN styleTransform ELSE otherTransforms[e]]
     ELSE UNCHANGED <<rootListeners, initialTransform, rootElement,
                      styleTransform, otherTransforms>>
  /\ emitted' = <<>>
  /\ UNCHANGED <<pointerSubscribed, disabled, nativeVars, sequenceVars,
                 passiveTransform, activeTransform, inDocument,
                 moveEventSubscriptions, lastTouchEventTime, now, completed,
                 disposeCalled, cycle, originalTransform>>

\* an observer subscribes to `moved`
moved_subscribe ==
  /\ moveEventSubscriptions < MaxSubscribers
  /\ moveEventSubscriptions' = moveEventSubscriptions + 1
  /\ emitted' = <<>>
  /\ UNCHANGED <<rootListeners, pointerSubscribed, disabled, nativeVars,
                 sequenceVars, transformVars, initialTransform, inDocument,
                 lastTouchEventTime, now, completed, disposeCalled, cycle>>

\* an observer of `moved` unsubscribes
moved_unsubscribe ==
  /\ moveEventSubscriptions > 0
  /\ moveEventSubscriptions' = moveEventSubscriptions - 1
  /\ emitted' = <<>>
  /\ UNCHANGED <<rootListeners, pointerSubscribed, disabled, nativeVars,
                 sequenceVars, transformVars, initialTransform, inDocument,
                 lastTouchEventTime, now, completed, disposeCalled, cycle>>

----------------------------------------------------------------------------
(* The environment: the browser delivers events, the host calls methods,   *)
(* time passes.                                                            *)

\* an event for which no listener of the session is registered: nothing runs
Undelivered ==
  /\ emitted' = <<>>
  /\ UNCHANGED <<rootListeners, pointerSubscribed, disabled, nativeVars,
                 sequenceVars, transformVars, initialTransform, inDocument,
                 moveEventSubscriptions, lastTouchEventTime, now, completed,
                 disposeCalled, cycle>>

\* mousedown/touchstart reaches the root element
PointerDown ==
  IF rootListeners
  THEN \E event \in DownEvents, scroll \in ScrollPositions :
         _pointerDown(event, scroll) /\ UNCHANGED <<pageVars, arrayVars>>
  ELSE Undelivered /\ UNCHANGED <<pageVars, arrayVars>>

\* mousemove/touchmove reaches the document
PointerMove ==
  IF pointerSubscribed
  THEN \E event \in MoveEvents :
         _pointerMove(event) /\ UNCHANGED <<pageVars, arrayVars>>
  ELSE Undelivered /\ UNCHANGED <<pageVars, arrayVars>>

\* mouseup/touchend reaches the document
PointerUp ==
  IF pointerSubscribed
  THEN \E event \in UpEvents :
         _pointerUp(event) /\ UNCHANGED <<pageVars, arrayVars>>
  ELSE Undelivered /\ UNCHANGED <<pageVars, arrayVars>>

SetDisabled ==
  \E value \in BOOLEAN : set_disabled(value) /\ UNCHANGED <<pageVars, arrayVars>>
Reset == reset /\ UNCHANGED <<pageVars, arrayVars>>
Dispose == dispose /\ disposeCalled' = TRUE /\ UNCHANGED <<pageVars, arrayVars>>
Subscribe == moved_subscribe /\ UNCHANGED <<pageVars, arrayVars>>
Unsubscribe == moved_unsubscribe /\ UNCHANGED <<pageVars, arrayVars>>
Tick ==
  /\ now + TickStep <= StartTime + MaxTicks * TickStep
  /\ now' = now + TickStep
  /\ emitted' = <<>>
  /\ UNCHANGED <<rootListeners, pointerSubscribed, disabled, nativeVars,
                 sequenceVars, transformVars, initialTransform, inDocument,
                 moveEventSubscriptions, lastTouchEventTime, completed,
                 disposeCalled, cycle, pageVars, arrayVars>>

Next ==
  \/ PointerDown
  \/ PointerMove
  \/ PointerUp
  \/ SetDisabled
  \/ Reset
  \/ Dispose
  \/ Subscribe
  \/ Unsubscribe
  \/ Tick

Spec == Init /\ [][Next]_vars

----------------------------------------------------------------------------
(* A page with a second element the session can be pointed at.  Each       *)
(* element's inline transform from before the session is kept for          *)
(* comparison.                                                             *)

Elements == {1, 2}

InitElements ==
  /\ constructor
  /\ rootElement = 1
  /\ otherTransforms \in [Elements \ {1} -> InlineTransforms]
  /\ originalTransform =
       [e \in Elements |-> IF e = 1 THEN styleTransform ELSE otherTransforms[e]]
  /\ NoArrays

WithRootElement ==
  \E element \in Elements : withRootElement(element) /\ UNCHANGED arrayVars

\* the mouse is pressed at one place of an unscrolled page and dragged
\* to either of two others
MousePress == Event("mousedown", 0, <<100, 100>>)
MouseDrags == {Event("mousemove", 0, at) : at \in {<<106, 101>>, <<102, 103>>}}
MouseRelease == Event("mouseup", 0, <<100, 100>>)
Unscrolled == [top |-> 0, left |-> 0]

MouseDown ==
  IF rootListeners
  THEN _pointerDown(MousePress, Unscrolled) /\ UNCHANGED <<pageVars, arrayVars>>
  ELSE Undelivered /\ UNCHANGED <<pageVars, arrayVars>>

MouseMove ==
  IF pointerSubscribed
  THEN \E event \in MouseDrags :
         _pointerMove(event) /\ UNCHANGED <<pageVars, arrayVars>>
  ELSE Undelivered /\ UNCHANGED <<pageVars, arrayVars>>

MouseUp ==
  IF pointerSubscribed
  THEN _pointerUp(MouseRelease) /\ UNCHANGED <<pageVars, arrayVars>>
  ELSE Undelivered /\ UNCHANGED <<pageVars, arrayVars>>

NextElements ==
  \/ WithRootElement
  \/ MouseDown
  \/ MouseMove
  \/ MouseUp
  \/ Reset

SpecElements == InitElements /\ [][NextElements]_vars

TypeOK ==
  /\ hasStartedDragging \in BOOLEAN
  /\ moveEventSubscriptions \in 0..MaxSubscribers

----------------------------------------------------------------------------
(* The array utilities.  An array is a sequence; JavaScript counts its     *)
(* items from 0, so item i of the code is array[i + 1] here.  The caller   *)
(* holds its arrays by name, and a utility works on the arrays whose names *)
(* it is given, which may be one and the same array.                       *)

\* longest array a caller starts with
MaxLen == 4

Items == {"a", "b", "c", "d"}
TargetItems == {"x", "y"}
\* what reading past the end of an array gives
Undefined == "undefined"

Range(array) == {array[i] : i \in 1..Len(array)}
\* the arrays of at most MaxLen items none of which occurs twice
ArraysOf(items) ==
  UNION {{array \in [1..n -> items] : Cardinality(Range(array)) = n} :
           n \in 0..MaxLen}
\* index arguments: in range, the length itself, and past either end
Indices == -1 .. MaxLen + 1
ClampValues == -1 .. 2

MathMin(a, b) == IF a < b THEN a ELSE b
MathMax(a, b) == IF a > b THEN a ELSE b

\* as clamp, bounding from above last
clamp_maxLast(value, min, max) == MathMin(max, MathMax(min, value))

clamp(value, min, max) == MathMax(min, MathMin(max, value))

\* array[index]
At(array, index) ==
  IF index \in 0 .. Len(array) - 1 THEN array[index + 1] ELSE Undefined

\* array.splice(start, deleteCount, ...items): the array it leaves and the
\* items it took out
splice(array, start, deleteCount, items) ==
  LET len == Len(array)
      actualStart == IF start < 0 THEN MathMax(len + start, 0)
                     ELSE MathMin(start, len)
      actualDeleteCount == MathMin(MathMax(deleteCount, 0), len - actualStart)
  IN [array |-> SubSeq(array, 1, actualStart) \o items
                  \o SubSeq(array, actualStart + actualDeleteCount + 1, len),
      removed |-> SubSeq(array, actualStart + 1, actualStart + actualDeleteCount)]

\* for (let i = from; i !== to; i += delta) array[i] = array[i + delta]
RECURSIVE ShiftItems(_, _, _, _)
ShiftItems(array, i, to, delta) ==
  IF i = to THEN array
  ELSE ShiftItems([array EXCEPT ![i + 1] = array[i + delta + 1]],
                  i + delta, to, delta)

\* as moveItemInArray, exchanging the two items
moveItemInArray_swaps(array, fromIndex, toIndex) ==
  LET from == clamp(fromIndex, 0, Len(array) - 1)
      to == clamp(toIndex, 0, Len(array) - 1)
  IN IF from = to THEN array
     ELSE [array EXCEPT ![from + 1] = array[to + 1], ![to + 1] = array[from + 1]]

moveItemInArray(array, fromIndex, toIndex) ==
  LET from == clamp(fromIndex, 0, Len(array) - 1)
      to == clamp(toIndex, 0, Len(array) - 1)
  IN IF from = to THEN array
     ELSE LET target == array[from + 1]
              delta == IF to < from THEN -1 ELSE 1
          IN [ShiftItems(array, from, to, delta) EXCEPT ![to + 1] = target]

\* as transferArrayItem, with the item put into targetArray before it is
\* taken out of currentArray
transferArrayItem_putsFirst(held, currentArray, targetArray, currentIndex, targetIndex) ==
  LET from == clamp(currentIndex, 0, Len(held[currentArray]) - 1)
      to == clamp(targetIndex, 0, Len(held[targetArray]))
  IN IF Len(held[currentArray]) > 0
     THEN LET put == [held EXCEPT
                        ![targetArray] =
                          splice(@, to, 0, <<At(held[currentArray], from)>>).array]
          IN [put EXCEPT ![currentArray] = splice(@, from, 1, <<>>).array]
     ELSE held

\* as transferArrayItem, with the destination clamped as moveItemInArray
\* clamps it
transferArrayItem_narrow(held, currentArray, targetArray, currentIndex, targetIndex) ==
  LET from == clamp(currentIndex, 0, Len(held[currentArray]) - 1)
      to == clamp(targetIndex, 0, Len(held[targetArray]) - 1)
  IN IF Len(held[currentArray]) > 0
     THEN LET taken == splice(held[currentArray], from, 1, <<>>)
              left == [held EXCEPT ![currentArray] = taken.array]
          IN [left EXCEPT
                ![targetArray] = splice(@, to, 0, <<taken.removed[1]>>).array]
     ELSE held

\* the item is taken out of currentArray first, then put into targetArray
\* as that array is by then
transferArrayItem(held, currentArray, targetArray, currentIndex, targetIndex) ==
  LET from == clamp(currentIndex, 0, Len(held[currentArray]) - 1)
      to == clamp(targetIndex, 0, Len(held[targetArray]))
  IN IF Len(held[currentArray]) > 0
     THEN LET taken == splice(held[currentArray], from, 1, <<>>)
              left == [held EXCEPT ![currentArray] = taken.array]
          IN [left EXCEPT
                ![targetArray] = splice(@, to, 0, <<taken.removed[1]>>).array]
     ELSE held

\* as copyArrayItem, taking the item out of currentArray
copyArrayItem_moves(held, currentArray, targetArray, currentIndex, targetIndex) ==
  LET to == clamp(targetIndex, 0, Len(held[targetArray]))
  IN IF Len(held[currentArray]) > 0
     THEN [held EXCEPT
             ![targetArray] =
               splice(@, to, 0, <<At(held[currentArray], currentIndex)>>).array,
             ![currentArray] = splice(@, currentIndex, 1, <<>>).array]
     ELSE held

copyArrayItem(held, currentArray, targetArray, currentIndex, targetIndex) ==
  LET to == clamp(targetIndex, 0, Len(held[targetArray]))
  IN IF Len(held[currentArray]) > 0
     THEN [held EXCEPT
             ![targetArray] =
               splice(@, to, 0, <<At(held[currentArray], currentIndex)>>).array]
     ELSE held

\* a call as the caller made it: the utility, its index or number
\* arguments, the arrays as they were, and what it returned
Call(fn, currentArray, targetArray, args, result) ==
  Some([fn |-> fn, currentArray |-> currentArray, targetArray |-> targetArray,
        args |-> args, before |-> arrays, result |-> result])

\* a caller holding two arrays, before its one call
InitArrays ==
  /\ constructor
  /\ styleTransform = <<>>
  /\ rootElement = 1
  /\ otherTransforms = <<>>
  /\ originalTransform = <<>>
  /\ arrays \in [current : ArraysOf(Items), target : ArraysOf(TargetItems)]
  /\ call = None

MoveItemInArray ==
  /\ call = None
  /\ \E fromIndex \in Indices, toIndex \in Indices :
       /\ arrays' = [arrays EXCEPT
                       !.current = moveItemInArray(@, fromIndex, toIndex)]
       /\ call' = Call("moveItemInArray", "current", "current",
                       <<fromIndex, toIndex>>, None)
  /\ UNCHANGED <<sessionVars, pageVars>>

\* onto the other array, or within the one array
TransferArrayItem ==
  /\ call = None
  /\ \E targetArray \in {"current", "target"},
        currentIndex \in Indices, targetIndex \in Indices :
       /\ arrays' = transferArrayItem(arrays, "current", targetArray,
                                      currentIndex, targetIndex)
       /\ call' = Call("transferArrayItem", "current", targetArray,
                       <<currentIndex, targetIndex>>, None)
  /\ UNCHANGED <<sessionVars, pageVars>>

CopyArrayItem ==
  /\ call = None
  /\ \E currentIndex \in Indices, targetIndex \in Indices :
       /\ arrays' = copyArrayItem(arrays, "current", "target",
                                  currentIndex, targetIndex)
       /\ call' = Call("copyArrayItem", "current", "target",
                       <<currentIndex, targetIndex>>, None)
  /\ UNCHANGED <<sessionVars, pageVars>>

Clamp ==
  /\ call = None
  /\ \E value \in ClampValues, min \in ClampValues, max \in ClampValues :
       call' = Call("clamp", "", "", <<value, min, max>>,
                    Some(clamp(value, min, max)))
  /\ UNCHANGED <<sessionVars, pageVars, arrays>>

NextArrays ==
  \/ MoveItemInArray
  \/ TransferArrayItem
  \/ CopyArrayItem
  \/ Clamp

SpecArrays == InitArrays /\ [][NextArrays]_vars

----------------------------------------------------------------------------
(* The claims.  A step is told apart by the handler that takes it; a       *)
(* handler is only ever asked about in states where its listener is        *)
(* registered.                                                             *)

Manhattan(p, q) == Abs(p.x - q.x) + Abs(p.y - q.y)
PointerAt(event) == _getPointerPositionOnPage(event, scrollPosition[1])
IsPrimary(event) == isTouchEvent(event) \/ event.button = 0
InSyntheticWindow(event) ==
  /\ ~isTouchEvent(event)
  /\ lastTouchEventTime # None
  /\ lastTouchEventTime[1] + MOUSE_EVENT_IGNORE_TIME > now
\* a pointer-down that the claims expect to arm
ShouldArm(event) == ~disabled /\ IsPrimary(event) /\ ~InSyntheticWindow(event)
Lifecycle(notes) ==
  Count(notes, "started") + Count(notes, "released") + Count(notes, "ended")

\* C1: after a pointer-up the session is idle: isDragging() is false, and
\* the next primary pointer-down of an enabled session outside the
\* synthetic-mouse window arms a fresh cycle (new pickup point, started and
\* moved flags cleared)
C1_IdleAfterPointerUp ==
  [][/\ (pointerSubscribed /\ \E e \in UpEvents : _pointerUp(e))
          => ~hasStartedDragging'
     /\ (rootListeners /\ ~pointerSubscribed /\ pickupPositionOnPage # None)
          => \A e \in DownEvents, s \in ScrollPositions :
               (ShouldArm(e) /\ _pointerDown(e, s))
               => /\ pointerSubscribed'
                  /\ pickupPositionOnPage' = Some(_getPointerPositionOnPage(e, s))
                  /\ ~hasStartedDragging'
                  /\ ~hasMoved']_vars

\* C2: after a first drag has ended and without reset(), a second drag is
\* armed by its own pointer-down, and each of its dragging moves sets the
\* active transform to pointer - second pickup + passive transform
C2_SecondDragContinues ==
  [][/\ (rootListeners /\ cycle.ended = 1 /\ ~pointerSubscribed)
          => \A e \in DownEvents, s \in ScrollPositions :
               (ShouldArm(e) /\ _pointerDown(e, s))
               => /\ pointerSubscribed'
                  /\ pickupPositionOnPage' = Some(_getPointerPositionOnPage(e, s))
     /\ (pointerSubscribed /\ hasStartedDragging)
          => \A e \in MoveEvents :
               _pointerMove(e)
               => activeTransform' =
                    Point(PointerAt(e).x - pickupPositionOnPage[1].x
                            + passiveTransform.x,
                          PointerAt(e).y - pickupPositionOnPage[1].y
                            + passiveTransform.y)]_vars

\* a session armed at (100,100) with nothing folded into the passive transform
ArmedAt100 ==
  /\ pointerSubscribed
  /\ pickupPositionOnPage = Some(Point(100, 100))
  /\ passiveTransform = Zero

\* C3 (as amended): armed at (100,100) with threshold 5 and zero passive
\* transform, a move to (102,101) leaves the session armed and the
\* transforms alone; the following move to (106,101) starts dragging and
\* emits "started" but leaves the active transform at (0,0) and the element
\* untouched; a dragging move at (106,101) sets the active transform to (6,1)
C3_ThresholdMoveOnlyStarts ==
  [][(ArmedAt100 /\ dragStartThreshold = 5) =>
     \A e \in MoveEvents :
       _pointerMove(e)
       => /\ (~hasStartedDragging /\ activeTransform = Zero
                /\ PointerAt(e) = Point(102, 101))
               => /\ ~hasStartedDragging'
                  /\ pointerSubscribed'
                  /\ emitted' = <<>>
                  /\ UNCHANGED transformVars
          /\ (~hasStartedDragging /\ activeTransform = Zero
                /\ PointerAt(e) = Point(106, 101))
               => /\ hasStartedDragging'
                  /\ Channels(emitted') = <<"started">>
                  /\ activeTransform' = Zero
                  /\ UNCHANGED transformVars
          /\ (hasStartedDragging /\ PointerAt(e) = Point(106, 101))
               => activeTransform' = Point(6, 1)]_vars

\* C3 as stated: the move to (106,101) that starts dragging also leaves the
\* active transform at (6,1)
C3_ThresholdMoveAppliesTransform ==
  [][(/\ ArmedAt100
      /\ dragStartThreshold = 5
      /\ ~hasStartedDragging
      /\ activeTransform = Zero) =>
     \A e \in MoveEvents :
       _pointerMove(e)
       => /\ PointerAt(e) = Point(102, 101)
               => (~hasStartedDragging' /\ UNCHANGED transformVars)
          /\ PointerAt(e) = Point(106, 101)
               => (hasStartedDragging' /\ activeTransform' = Point(6, 1))]_vars

\* a drag from (100,100) has been moved to (106,101)
C3_Witness ==
  /\ ArmedAt100
  /\ hasStartedDragging
  /\ hasMoved
  /\ activeTransform = Point(6, 1)

\* C4: in a cycle "started" goes out exactly once, on the first move whose
\* Manhattan distance from the pickup point is at least dragStartThreshold,
\* and on no other step: never again on later moves, never in a cycle
\* without such a move
C4_StartedOncePerCycle ==
  [][/\ pointerSubscribed
          => \A e \in MoveEvents :
               _pointerMove(e)
               => Count(emitted', "started") =
                    IF /\ ~hasStartedDragging
                       /\ Manhattan(PointerAt(e), pickupPositionOnPage[1])
                            >= dragStartThreshold
                    THEN 1 ELSE 0
     /\ Count(emitted', "started") > 0
          => pointerSubscribed /\ \E e \in MoveEvents : _pointerMove(e)
     /\ cycle'.started = IF hasStartedDragging' THEN 1 ELSE 0]_vars

\* a started drag whose pointer has come back inside the threshold
C4_Witness ==
  /\ pointerSubscribed
  /\ hasStartedDragging
  /\ hasMoved
  /\ cycle.started = 1
  /\ activeTransform # passiveTransform
  /\ Manhattan(activeTransform, passiveTransform) < dragStartThreshold

\* C5: in a cycle whose moves all stay below the threshold, no step (the
\* arming pointer-down, the moves, the pointer-up) emits "started",
\* "released" or "ended" or changes the active transform, the passive
\* transform or the element's transform
C5_SilentBelowThreshold ==
  [][/\ (rootListeners /\ ~hasStartedDragging /\ pointerSubscribed')
          => \A e \in DownEvents, s \in ScrollPositions :
               _pointerDown(e, s)
               => /\ Lifecycle(emitted') = 0
                  /\ cycle' = NoCycle
                  /\ UNCHANGED transformVars
     /\ (pointerSubscribed /\ ~hasStartedDragging)
          => /\ \A e \in MoveEvents :
                  (/\ Manhattan(PointerAt(e), pickupPositionOnPage[1])
                        < dragStartThreshold
                   /\ _pointerMove(e))
                  => /\ ~hasStartedDragging'
                     /\ pointerSubscribed'
                     /\ emitted' = <<>>
                     /\ cycle' = NoCycle
                     /\ UNCHANGED transformVars
             /\ \A e \in UpEvents :
                  _pointerUp(e)
                  => /\ ~pointerSubscribed'
                     /\ emitted' = <<>>
                     /\ cycle' = NoCycle
                     /\ UNCHANGED transformVars]_vars

\* a cycle that never started has been ended by its pointer-up
C5_Witness ==
  /\ ~disposeCalled
  /\ ~pointerSubscribed
  /\ pickupPositionOnPage # None
  /\ ~hasStartedDragging
  /\ cycle = NoCycle
  /\ emitted = <<>>

\* C6: the pointer-up of a started drag emits "released" while the passive
\* transform is still the old one, then makes the passive transform equal
\* to the active one, then emits "ended"; each once; the active transform
\* is kept; and "released" and "ended" go out on no other step, so never
\* without the "started" of the same cycle
C6_ReleasedFoldEnded ==
  [][/\ (pointerSubscribed /\ hasStartedDragging)
          => \A e \in UpEvents :
               _pointerUp(e)
               => /\ emitted' = <<Note("released", passiveTransform),
                                  Note("ended", activeTransform)>>
                  /\ passiveTransform' = activeTransform
                  /\ activeTransform' = activeTransform
                  /\ cycle.started = 1
                  /\ cycle' = [started |-> 1, released |-> 1, ended |-> 1]
     /\ Count(emitted', "released") + Count(emitted', "ended") > 0
          => /\ pointerSubscribed
             /\ hasStartedDragging
             /\ \E e \in UpEvents : _pointerUp(e)]_vars

\* a drag that moved the element has just been ended
C6_Witness ==
  /\ Channels(emitted) = <<"released", "ended">>
  /\ activeTransform # Zero
  /\ passiveTransform = activeTransform
  /\ emitted[1].passive # emitted[2].passive

\* C7: once dispose() has been called no step delivers a notification on
\* any channel, whatever events reach the element or the document, and a
\* further dispose() changes nothing
C7_SilentAfterDispose ==
  [][/\ disposeCalled => emitted' = <<>>
     /\ (disposeCalled /\ Dispose) => UNCHANGED vars]_vars

\* the session was disposed of in the middle of a drag, observers attached
C7_Witness ==
  /\ disposeCalled
  /\ hasStartedDragging
  /\ hasMoved
  /\ moveEventSubscriptions > 0
  /\ activeTransform # passiveTransform

\* C8: dispose() removes the root element from the document exactly when a
\* drag is in progress (threshold crossed, pointer not yet released)
C8_RemovedOnlyMidDrag ==
  [][Dispose =>
       (inDocument' = (inDocument /\ ~(hasStartedDragging /\ pointerSubscribed)))]_vars

\* C9 (as amended): whenever disabled is true the native drag interactions
\* of the root element are enabled
C9_DisabledEnablesNative ==
  disabled => (nativeInteractionsEnabled /\ elementNativeInteractions)

\* C9 as stated: whenever disabled is true the native drag interactions of
\* the root element are disabled
C9_DisabledDisablesNative ==
  disabled => ~elementNativeInteractions

\* a session that armed (native interactions off) and was disabled afterwards
C9_Witness ==
  /\ disabled
  /\ elementNativeInteractions
  /\ pickupPositionOnPage # None

\* C10: reset() zeroes the active and the passive transform, emits nothing
\* and leaves the flags, the pickup points, the direction delta and its
\* reference point alone, in every phase; a dragging move with a zero
\* passive transform sets the active transform to pointer - pickup
C10_ResetKeepsPhase ==
  [][/\ reset
          => /\ activeTransform' = Zero
             /\ passiveTransform' = Zero
             /\ emitted' = <<>>
             /\ UNCHANGED <<sequenceVars, pointerSubscribed, cycle>>
     /\ (pointerSubscribed /\ hasStartedDragging /\ passiveTransform = Zero)
          => \A e \in MoveEvents :
               _pointerMove(e)
               => activeTransform' =
                    Point(PointerAt(e).x - pickupPositionOnPage[1].x,
                          PointerAt(e).y - pickupPositionOnPage[1].y)]_vars

\* reset() was called in the middle of a drag that had moved the element
C10_Witness ==
  /\ pointerSubscribed
  /\ hasStartedDragging
  /\ hasMoved
  /\ activeTransform = Zero
  /\ styleTransform = (IF Truthy(initialTransform) THEN initialTransform[1] ELSE <<>>)

\* C17: every pointer-down delivered to the root element emits exactly one
\* "beforeStarted" and nothing else, whatever comes of the press: also
\* when the session is disabled or already dragging, the button is not the
\* primary one, or the press falls into the synthetic-mouse window
\* (read from the other end: a step that emits anything else is the
\* delivery of no pointer-down)
C17_BeforeStartedOnEveryDown ==
  [][(rootListeners /\ emitted' # <<Note("beforeStarted", passiveTransform)>>)
     => \A e \in DownEvents, s \in ScrollPositions : ~_pointerDown(e, s)]_vars

\* a press on a disabled session in the middle of a drag has been announced
C17_Witness ==
  /\ Channels(emitted) = <<"beforeStarted">>
  /\ disabled
  /\ hasStartedDragging
  /\ hasMoved
  /\ pointerSubscribed

\* a pointer-down that does not arm
Aborted(event) ==
  \/ hasStartedDragging
  \/ ~IsPrimary(event)
  \/ InSyntheticWindow(event)
  \/ disabled

\* C18: a pointer-down that is aborted (already dragging, not the primary
\* button, synthetic mouse event inside the window, or session disabled)
\* leaves the pickup points, the scroll snapshot, the started and moved
\* flags, the direction delta and its reference point, the cached initial
\* transform and the active and passive transforms as they were
\* (read from the other end: a step that changes any of them is no aborted
\* pointer-down)
C18_AbortedDownChangesNothing ==
  [][(rootListeners
       /\ ~UNCHANGED <<pickupPositionInElement, pickupPositionOnPage,
                       scrollPosition, hasStartedDragging, hasMoved,
                       pointerDirectionDelta,
                       pointerPositionAtLastDirectionChange, initialTransform,
                       activeTransform, passiveTransform>>)
     => \A e \in DownEvents, s \in ScrollPositions :
          ~(Aborted(e) /\ _pointerDown(e, s))]_vars

\* a press in the middle of a drag that has moved the element was turned away
C18_Witness ==
  /\ Channels(emitted) = <<"beforeStarted">>
  /\ ~disabled
  /\ hasStartedDragging
  /\ hasMoved
  /\ pointerSubscribed
  /\ activeTransform # passiveTransform

\* one axis of the direction hysteresis: the direction and the reference
\* coordinate after the pointer has come to `pointer`
AxisAfter(pointer, reference, direction) ==
  IF Abs(pointer - reference) > pointerDirectionChangeThreshold
  THEN [direction |-> IF pointer > reference THEN 1 ELSE -1,
        reference |-> pointer]
  ELSE [direction |-> direction, reference |-> reference]

\* C19: a dragging pointer-move emits a move notification, with the
\* pointer position and the direction delta as it now is, if and only if
\* `moved` has at least one subscriber; with or without subscribers it
\* sets the moved flag and updates the active transform, the element's
\* transform and the direction delta in the same way
C19_MoveNotifiesSubscribersOnly ==
  [][(pointerSubscribed /\ hasStartedDragging) =>
     \A e \in MoveEvents :
       _pointerMove(e)
       => LET p == PointerAt(e)
              active == Point(p.x - pickupPositionOnPage[1].x + passiveTransform.x,
                              p.y - pickupPositionOnPage[1].y + passiveTransform.y)
              baseline == IF initialTransform = None THEN <<>>
                          ELSE initialTransform[1]
              ref == pointerPositionAtLastDirectionChange[1]
              delta == Point(AxisAfter(p.x, ref.x, pointerDirectionDelta[1].x).direction,
                             AxisAfter(p.y, ref.y, pointerDirectionDelta[1].y).direction)
          IN /\ emitted' = IF moveEventSubscriptions > 0
                           THEN <<MoveNote(p, delta)>> ELSE <<>>
             /\ hasMoved'
             /\ activeTransform' = active
             /\ styleTransform' = <<active>> \o baseline
             /\ pointerDirectionDelta' = Some(delta)]_vars

\* an observer has been told of a move that turned the direction
C19_Witness ==
  /\ Channels(emitted) = <<"moved">>
  /\ moveEventSubscriptions > 0
  /\ hasMoved
  /\ emitted[1].delta = pointerDirectionDelta[1]
  /\ emitted[1].delta # Zero
  /\ styleTransform[1] = activeTransform

\* C20: on a dragging pointer-move, for each axis by itself: if
\* |pointer - reference| is strictly greater than
\* pointerDirectionChangeThreshold the direction becomes +1 (pointer above
\* the reference) or -1 and the reference becomes the pointer coordinate;
\* otherwise both keep their values, whatever the other axis does
C20_DirectionHysteresis ==
  [][(pointerSubscribed /\ hasStartedDragging) =>
     \A e \in MoveEvents :
       _pointerMove(e)
       => LET p == PointerAt(e)
              ref == pointerPositionAtLastDirectionChange[1]
              x == AxisAfter(p.x, ref.x, pointerDirectionDelta[1].x)
              y == AxisAfter(p.y, ref.y, pointerDirectionDelta[1].y)
          IN /\ pointerDirectionDelta'[1].x = x.direction
             /\ pointerPositionAtLastDirectionChange'[1].x = x.reference
             /\ pointerDirectionDelta'[1].y = y.direction
             /\ pointerPositionAtLastDirectionChange'[1].y = y.reference]_vars

\* a move has turned the x direction while the pointer, one pixel off its
\* reference on y, left the y direction unset
C20_Witness ==
  /\ hasMoved
  /\ pointerSubscribed
  /\ pointerDirectionDelta = Some(Point(1, 0))
  /\ pointerPositionAtLastDirectionChange[1].y
       # pickupPositionOnPage[1].y + activeTransform.y - passiveTransform.y
  /\ pointerPositionAtLastDirectionChange[1].x
       = pickupPositionOnPage[1].x + activeTransform.x - passiveTransform.x

\* where the pointer was on the last dragging move
LastPointer ==
  Point(pickupPositionOnPage[1].x + activeTransform.x - passiveTransform.x,
        pickupPositionOnPage[1].y + activeTransform.y - passiveTransform.y)

\* C21: each axis of the direction delta is always -1, 0 or 1; a
\* pointer-down that arms sets both axes to 0; and an axis that is not 0
\* never becomes 0 again within its cycle, it can only change sign (the
\* only step that takes an axis back to 0 is a pointer-down that arms)
C21_DirectionNeverRests ==
  [][/\ pointerDirectionDelta' # None
          => /\ pointerDirectionDelta'[1].x \in {-1, 0, 1}
             /\ pointerDirectionDelta'[1].y \in {-1, 0, 1}
     /\ (rootListeners /\ ~disabled /\ ~hasStartedDragging
           /\ pointerDirectionDelta' # Some(Zero))
          => \A e \in DownEvents, s \in ScrollPositions :
               ~(IsPrimary(e) /\ ~InSyntheticWindow(e) /\ _pointerDown(e, s))
     /\ (/\ pointerDirectionDelta # None
         /\ pointerDirectionDelta' # pointerDirectionDelta
         /\ \/ pointerDirectionDelta[1].x # 0 /\ pointerDirectionDelta'[1].x = 0
            \/ pointerDirectionDelta[1].y # 0 /\ pointerDirectionDelta'[1].y = 0)
          => /\ rootListeners /\ ~disabled /\ ~hasStartedDragging
             /\ pointerDirectionDelta' = Some(Zero)
             /\ \E e \in DownEvents, s \in ScrollPositions : _pointerDown(e, s)]_vars

\* the pointer has turned downwards on y and then come to rest a pixel off
\* its reference: the y direction is still -1
C21_Witness ==
  /\ hasMoved
  /\ pointerSubscribed
  /\ pointerDirectionDelta # None
  /\ pointerDirectionDelta[1].y = -1
  /\ Abs(LastPointer.y - pointerPositionAtLastDirectionChange[1].y) = 1

\* C22: the session takes a pointer-down for a synthetic mouse event
\* exactly when it is a mouse event and a touch time t0 is recorded with
\* t0 + 800 > now (so not at or after t0 + 800, not without a recorded
\* time, and never for a touch event); a mouse pointer-down inside that
\* window does not arm; outside it a primary pointer-down on an enabled,
\* idle session arms; and the touch time is written only by a touch
\* pointer-move that starts a drag, which sets it to the time of that move
C22_SyntheticMouseWindow ==
  [][/\ rootListeners
          => \A e \in DownEvents :
               isSyntheticEvent(e)
                 = (/\ ~isTouchEvent(e)
                    /\ lastTouchEventTime # None
                    /\ lastTouchEventTime[1] + 800 > now)
     /\ (/\ rootListeners
         /\ lastTouchEventTime # None
         /\ ~UNCHANGED <<sequenceVars, pointerSubscribed, initialTransform>>)
          => \A e \in DownEvents, s \in ScrollPositions :
               ~(InSyntheticWindow(e) /\ _pointerDown(e, s))
     /\ (rootListeners /\ ~disabled /\ ~hasStartedDragging)
          => \A e \in DownEvents, s \in ScrollPositions :
               (IsPrimary(e) /\ ~InSyntheticWindow(e) /\ _pointerDown(e, s))
               => /\ pointerSubscribed'
                  /\ pickupPositionOnPage' = Some(_getPointerPositionOnPage(e, s))
     /\ lastTouchEventTime' # lastTouchEventTime
          => /\ pointerSubscribed
             /\ ~hasStartedDragging
             /\ hasStartedDragging'
             /\ lastTouchEventTime' = Some(now)
             /\ \E e \in MoveEvents : isTouchEvent(e) /\ _pointerMove(e)]_vars

\* a press has arrived at the very instant the window of a touch drag ends
C22_Witness ==
  /\ lastTouchEventTime # None
  /\ lastTouchEventTime[1] + MOUSE_EVENT_IGNORE_TIME = now
  /\ Channels(emitted) = <<"beforeStarted">>

\* C23: the passive transform is changed only by the pointer-up of a
\* started drag, which sets it to the active transform, and by reset(),
\* which sets it to zero; every other step (pointer-down, pointer-move
\* below the threshold, across it or dragging, the pointer-up of a cycle
\* that never started, subscribe, unsubscribe, dispose) leaves it as it was
C23_PassiveOnlyAtDragEnd ==
  [][/\ passiveTransform' # passiveTransform
          => \/ /\ pointerSubscribed
                /\ hasStartedDragging
                /\ passiveTransform' = activeTransform
                /\ \E e \in UpEvents : _pointerUp(e)
             \/ /\ passiveTransform' = Zero
                /\ Reset
     /\ (pointerSubscribed /\ hasStartedDragging)
          => \A e \in UpEvents : _pointerUp(e) => passiveTransform' = activeTransform
     /\ Reset => passiveTransform' = Zero]_vars

\* a drag has been folded into the passive transform and the session has
\* gone on to other steps since, observers of `moved` still attached
C23_Witness ==
  /\ ~pointerSubscribed
  /\ cycle.ended = 1
  /\ passiveTransform # Zero
  /\ passiveTransform = activeTransform
  /\ emitted = <<>>
  /\ moveEventSubscriptions > 0

\* C24: in every state the moved flag is set only if the started flag is;
\* the move that crosses the threshold sets started and not moved; moved
\* is set only by a move of a drag that has started already; and a
\* pointer-down that arms leaves both flags clear
C24_MovedOnlyWhenStarted ==
  [][/\ hasMoved' => hasStartedDragging'
     /\ (~hasStartedDragging /\ hasStartedDragging')
          => /\ ~hasMoved'
             /\ pointerSubscribed
             /\ \E e \in MoveEvents :
                  /\ Manhattan(PointerAt(e), pickupPositionOnPage[1])
                       >= dragStartThreshold
                  /\ _pointerMove(e)
     /\ (~hasMoved /\ hasMoved')
          => /\ hasStartedDragging
             /\ pointerSubscribed
             /\ \E e \in MoveEvents : _pointerMove(e)
     /\ (rootListeners /\ ~disabled /\ ~hasStartedDragging
           /\ (hasStartedDragging' \/ hasMoved'))
          => \A e \in DownEvents, s \in ScrollPositions :
               ~(IsPrimary(e) /\ ~InSyntheticWindow(e) /\ _pointerDown(e, s))]_vars

\* the threshold has just been crossed: started, not yet moved
C24_Witness ==
  /\ Channels(emitted) = <<"started">>
  /\ pointerSubscribed
  /\ hasStartedDragging
  /\ ~hasMoved

\* C26: no step of a session, whatever the pointer events and the calls
\* of reset, disabled, subscribe, unsubscribe and dispose before it, emits
\* "dropped"; the pointer-up that ends a drag emits "released" and "ended"
\* and nothing else
C26_NeverDropped ==
  [][/\ Count(emitted', "dropped") = 0
     /\ (pointerSubscribed /\ hasStartedDragging)
          => \A e \in UpEvents :
               _pointerUp(e) => Channels(emitted') = <<"released", "ended">>]_vars

\* a drag that moved the element has been ended on a disabled session
\* with an observer of `moved` attached
C26_Witness ==
  /\ Channels(emitted) = <<"released", "ended">>
  /\ cycle = [started |-> 1, released |-> 1, ended |-> 1]
  /\ hasMoved
  /\ disabled
  /\ moveEventSubscriptions > 0

\* the element's own inline transform from before the session
Original == originalTransform[rootElement]

\* C11: after reset() the root element's inline transform is the one that
\* element had before the session applied a drag transform to it, in every
\* phase and after every change of root element; and a cached baseline is
\* that same transform, never one with the session's translation in it
C11_ResetRestoresOriginal ==
  [][/\ Reset => styleTransform' = Original
     /\ initialTransform' # None => initialTransform'[1] = Original']_vars

----------------------------------------------------------------------------
(* The array utilities' claims, read off the one call a caller has made.   *)

Called(fn) == call # None /\ call[1].fn = fn
\* v brought into lo..hi
Bounded(v, lo, hi) == IF v < lo THEN lo ELSE IF v > hi THEN hi ELSE v
\* the array without its item at place i, and with `item` put in at place i
\* (places counted from 1)
Without(array, i) == SubSeq(array, 1, i - 1) \o SubSeq(array, i + 1, Len(array))
WithAt(array, i, item) ==
  SubSeq(array, 1, i - 1) \o <<item>> \o SubSeq(array, i, Len(array))
Occurrences(array, item) == Cardinality({i \in 1..Len(array) : array[i] = item})
SourceBefore == call[1].before[call[1].currentArray]
TargetBefore == call[1].before[call[1].targetArray]
SourceAfter == arrays[call[1].currentArray]
TargetAfter == arrays[call[1].targetArray]

\* C12: moveItemInArray(array, from, to), for every array and all integers
\* from and to: the length is kept, the result is a permutation of the
\* input, the item that was at clamp(from, 0, len-1) is at
\* clamp(to, 0, len-1), the other items keep their order, nothing changes
\* when the clamped indices are equal or the array is empty, and
\* [a,b,c,d] moved from 0 to 2 is [b,c,a,d]
C12_MoveRelocatesOne ==
  Called("moveItemInArray") =>
    LET len == Len(SourceBefore)
        from == Bounded(call[1].args[1], 0, len - 1)
        to == Bounded(call[1].args[2], 0, len - 1)
    IN /\ Len(SourceAfter) = len
       /\ \A item \in Range(SourceBefore) \cup Range(SourceAfter) :
            Occurrences(SourceAfter, item) = Occurrences(SourceBefore, item)
       /\ len > 0 => /\ SourceAfter[to + 1] = SourceBefore[from + 1]
                      /\ Without(SourceAfter, to + 1)
                           = Without(SourceBefore, from + 1)
       /\ (len = 0 \/ from = to) => SourceAfter = SourceBefore
       /\ arrays.target = call[1].before.target
       /\ (SourceBefore = <<"a", "b", "c", "d">> /\ call[1].args = <<0, 2>>)
            => SourceAfter = <<"b", "c", "a", "d">>

\* [a,b,c,d] has had its first item moved to index 2
C12_Witness ==
  /\ Called("moveItemInArray")
  /\ SourceBefore = <<"a", "b", "c", "d">>
  /\ call[1].args = <<0, 2>>
  /\ SourceAfter = <<"b", "c", "a", "d">>

\* C13: transferArrayItem(current, target, from, to) on two different
\* arrays, for all integers from and to: a non-empty current loses exactly
\* its item at clamp(from, 0, current.length-1), target gains exactly that
\* item at clamp(to, 0, target.length), all other items keep their order
\* and the number of items in both together is kept; with an empty current
\* neither array changes
C13_TransferMovesOne ==
  (Called("transferArrayItem") /\ call[1].currentArray # call[1].targetArray) =>
    LET len == Len(SourceBefore)
        from == Bounded(call[1].args[1], 0, len - 1)
        to == Bounded(call[1].args[2], 0, Len(TargetBefore))
    IN IF len > 0
       THEN /\ SourceAfter = Without(SourceBefore, from + 1)
            /\ TargetAfter = WithAt(TargetBefore, to + 1, SourceBefore[from + 1])
            /\ TargetAfter[to + 1] = SourceBefore[from + 1]
            /\ Len(SourceAfter) + Len(TargetAfter)
                 = Len(SourceBefore) + Len(TargetBefore)
       ELSE arrays = call[1].before

\* an item has been handed over with both indices past the end
C13_Witness ==
  /\ Called("transferArrayItem")
  /\ call[1].currentArray # call[1].targetArray
  /\ Len(SourceBefore) > 1
  /\ Len(TargetBefore) > 0
  /\ call[1].args[1] > Len(SourceBefore) - 1
  /\ call[1].args[2] > Len(TargetBefore)
  /\ TargetAfter = TargetBefore \o <<SourceBefore[Len(SourceBefore)]>>

\* C14: copyArrayItem(current, target, from, to) with from inside a
\* non-empty current, for every integer to: current is left as it was and
\* target gains exactly one item, equal to current[from], at
\* clamp(to, 0, target.length), its other items keeping their order; with
\* an empty current neither array changes
C14_CopyAddsOne ==
  (/\ Called("copyArrayItem")
   /\ Len(SourceBefore) > 0 => call[1].args[1] \in 0 .. Len(SourceBefore) - 1) =>
    LET from == call[1].args[1]
        to == Bounded(call[1].args[2], 0, Len(TargetBefore))
    IN /\ SourceAfter = SourceBefore
       /\ IF Len(SourceBefore) > 0
          THEN /\ TargetAfter = WithAt(TargetBefore, to + 1, SourceBefore[from + 1])
               /\ Len(TargetAfter) = Len(TargetBefore) + 1
          ELSE TargetAfter = TargetBefore

\* the last item of an array has been copied in front of the target's items
C14_Witness ==
  /\ Called("copyArrayItem")
  /\ Len(SourceBefore) > 1
  /\ call[1].args[1] = Len(SourceBefore) - 1
  /\ call[1].args[2] < 0
  /\ Len(TargetBefore) > 0
  /\ TargetAfter = <<SourceBefore[Len(SourceBefore)]>> \o TargetBefore
  /\ SourceAfter = SourceBefore

\* C15: in moveItemInArray, transferArrayItem and copyArrayItem every
\* index argument, of the source as of the destination, is clamped into
\* range, so that with a non-empty source the item put into the
\* destination is always an item the source held
C15_PlacedItemFromSource ==
  (/\ call # None
   /\ call[1].fn \in {"moveItemInArray", "transferArrayItem", "copyArrayItem"}
   /\ Len(SourceBefore) > 0) =>
    LET upper == IF call[1].fn = "moveItemInArray" THEN Len(TargetBefore) - 1
                 ELSE IF call[1].currentArray = call[1].targetArray
                      THEN Len(TargetAfter) - 1
                      ELSE Len(TargetBefore)
        to == Bounded(call[1].args[2], 0, upper)
    IN /\ TargetAfter[to + 1] \in Range(SourceBefore)
       /\ Range(TargetAfter) \subseteq Range(TargetBefore) \cup Range(SourceBefore)

\* C16: clamp(value, min, max): with min <= max the result lies in
\* min..max and is value whenever value does; with min > max the result is
\* min whatever the value
C16_ClampBounds ==
  Called("clamp") =>
    LET value == call[1].args[1]
        min == call[1].args[2]
        max == call[1].args[3]
        result == call[1].result[1]
    IN /\ min <= max => /\ result \in min .. max
                         /\ (value \in min .. max) => result = value
       /\ min > max => result = min

\* a value above both ends of an inverted range has been clamped
C16_Witness ==
  /\ Called("clamp")
  /\ call[1].args[2] > call[1].args[3]
  /\ call[1].args[1] > call[1].args[2]
  /\ call[1].result = Some(call[1].args[2])

\* C25: transferArrayItem given one array as source and as target leaves
\* it as moveItemInArray with the same indices would, for every array and
\* all integers from and to (to = length and out-of-range values
\* included): the length is kept and no item is lost or doubled
C25_TransferWithinIsMove ==
  (Called("transferArrayItem") /\ call[1].currentArray = call[1].targetArray) =>
    /\ SourceAfter
         = moveItemInArray(SourceBefore, call[1].args[1], call[1].args[2])
    /\ Len(SourceAfter) = Len(SourceBefore)
    /\ \A item \in Range(SourceBefore) \cup Range(SourceAfter) :
         Occurrences(SourceAfter, item) = Occurrences(SourceBefore, item)
    /\ arrays.target = call[1].before.target

\* the first item of an array has been handed to the array itself at the
\* index that is its length
C25_Witness ==
  /\ Called("transferArrayItem")
  /\ call[1].currentArray = call[1].targetArray
  /\ Len(SourceBefore) > 2
  /\ call[1].args = <<0, Len(SourceBefore)>>
  /\ SourceAfter = Tail(SourceBefore) \o <<Head(SourceBefore)>>

====
